---- MODULE Spec2Model ----
(***************************************************************************)
(* Model of the ruspiro-mailbox crate: the property tag codec              *)
(* (propertytags), the message and batch envelopes (message) and the       *)
(* register handshake with the VideoCore (interface).                      *)
(*                                                                         *)
(* Memory is modelled at byte granularity; u32 fields are little endian.   *)
(***************************************************************************)
EXTENDS Integers, Naturals, Sequences, FiniteSets, TLC

VARIABLES
  tag,      \* the tag last built by <Tag>::new, or NoTag
  newIn,    \* (history) the tag type and arguments handed to that new()
  kind,     \* what the caller holds: "none", "message" or "batch"
  buf,      \* the MailboxMessage / MailboxBatch value the caller holds
  hist,     \* (history) the tags handed to From / with_tag, in call order
  got,      \* the outcome of the last get_tag call
  pc,       \* position of send_message / send_batch
  channel,  \* the channel argument of the running exchange
  ptr,      \* msg_ptr / batch_ptr: address of the buffer on the stack
  uncached, \* msg_ptr_uncached / batch_ptr_uncached
  st1full,  \* MAILBOX1_STATUS: FULL flag as the hardware shows it
  seen,     \* the status / data word the running loop has read last
  wlog,     \* every value stored to MAILBOX1_WRITE, in order
  fifo0,    \* content of the VideoCore -> ARM FIFO behind MAILBOX0_READ
  mem,      \* the buffer as it lies in memory while the VideoCore owns it
  vcdone,   \* the VideoCore has answered the request that was written
  foreign,  \* number of values of other channels delivered so far
  result,   \* the value returned by send_message / send_batch
  trace,    \* (history) the steps the running exchange has finished, in order
  rdata,    \* the value mb_read returned: Ok(data & 0xFFFF_FFF0), <<>> before
  released, \* (history) the values whose release logic ran for the buffer of
            \* the last exchange: "original" and / or "reconstructed"
  holds,    \* the reference to the Mailbox each context holds
  call      \* the Mailbox method each context runs and how far it has got

vars == <<tag, newIn, kind, buf, hist, got, pc, channel, ptr, uncached,
          st1full, seen, wlog, fifo0, mem, vcdone, foreign, result, trace,
          rdata, released, holds, call>>

codecVars == <<tag, newIn>>
callerVars == <<kind, buf, hist, got>>
xchgVars == <<pc, channel, ptr, uncached, st1full, seen, wlog, fifo0, mem,
              vcdone, foreign, result, trace, rdata, released>>
handleVars == <<holds, call>>

-----------------------------------------------------------------------------
(* Bounds of the model *)

\* largest number of with_tag calls on one batch
MaxTags == 3
\* largest number of tags of a batch that is sent
MaxSendTags == 2
\* largest number of tags of a batch that is sent under fairness
MaxFairTags == 1
\* largest number of values of other channels the VideoCore delivers
MaxForeign == 2

-----------------------------------------------------------------------------
(* 32 bit words *)

\* A u32 that is a size, an identifier or a request argument is a number
\* (all of them stay below 2^31 here).  A u32 that can have bit 31 set (a
\* state word, an address, a register value) is a pair <<hi, lo>> of its
\* upper and lower 16 bits.

Max(a, b) == IF a >= b THEN a ELSE b

AlignUp(n, a) == ((n + a - 1) \div a) * a

\* the four bytes of a u32 in memory (little endian)
LE32(v) == << v % 256, (v \div 256) % 256, (v \div 65536) % 256,
              (v \div 16777216) % 256 >>

\* the u32 read from four bytes in memory
FromLE32(b) == b[1] + 256 * b[2] + 65536 * b[3] + 16777216 * b[4]

\* the four bytes of a <<hi, lo>> word in memory (little endian)
LEW(w) == << w[2] % 256, w[2] \div 256, w[1] % 256, w[1] \div 256 >>

\* the <<hi, lo>> word read from four bytes in memory
FromLEW(b) == << b[3] + 256 * b[4], b[1] + 256 * b[2] >>

\* the <<hi, lo>> word with index i (from 0) of a byte image
WideAt(bytes, i) == FromLEW(SubSeq(bytes, 4 * i + 1, 4 * i + 4))

\* the u32 word with index i (from 0) of a byte image
WordAt(bytes, i) == FromLE32(SubSeq(bytes, 4 * i + 1, 4 * i + 4))

-----------------------------------------------------------------------------
(* Property tag catalog *)

Catalog ==
  [
    FirmwareRevisionGet |-> [id |-> 1, req |-> <<>>, rsp |-> <<"u32">>, pad |-> "none"],
    BoardModelGet |-> [id |-> 65537, req |-> <<>>, rsp |-> <<"u32">>, pad |-> "none"],
    BoardRevisionGet |-> [id |-> 65538, req |-> <<>>, rsp |-> <<"u32">>, pad |-> "none"],
    BoardMACAddressGet |-> [id |-> 65539, req |-> <<>>, rsp |-> <<"u8x6">>, pad |-> "u16"],
    BoardSerialGet |-> [id |-> 65540, req |-> <<>>, rsp |-> <<"u32">>, pad |-> "none"],
    ArmMemoryGet |-> [id |-> 65541, req |-> <<>>, rsp |-> <<"u32", "u32">>, pad |-> "none"],
    VcMemoryGet |-> [id |-> 65542, req |-> <<>>, rsp |-> <<"u32", "u32">>, pad |-> "none"],
    DmaChannelsGet |-> [id |-> 393217, req |-> <<>>, rsp |-> <<"u32">>, pad |-> "none"],
    PowerStateGet |-> [id |-> 131073, req |-> <<"DeviceId">>, rsp |-> <<"DeviceId", "u32">>, pad |-> "none"],
    PowerStateSet |-> [id |-> 163841, req |-> <<"DeviceId", "u32">>, rsp |-> <<"DeviceId", "u32">>, pad |-> "none"],
    ClockStateGet |-> [id |-> 196609, req |-> <<"ClockId">>, rsp |-> <<"ClockId", "u32">>, pad |-> "none"],
    ClockStateSet |-> [id |-> 229377, req |-> <<"ClockId", "u32">>, rsp |-> <<"ClockId", "u32">>, pad |-> "none"],
    ClockrateGet |-> [id |-> 196610, req |-> <<"ClockId">>, rsp |-> <<"ClockId", "u32">>, pad |-> "none"],
    ClockrateSet |-> [id |-> 229378, req |-> <<"ClockId", "u32", "u32">>, rsp |-> <<"ClockId", "u32">>, pad |-> "none"],
    MaxClockrateGet |-> [id |-> 196612, req |-> <<"ClockId">>, rsp |-> <<"ClockId", "u32">>, pad |-> "none"],
    MinClockrateGet |-> [id |-> 196615, req |-> <<"ClockId">>, rsp |-> <<"ClockId", "u32">>, pad |-> "none"],
    VoltageGet |-> [id |-> 196611, req |-> <<"VoltageId">>, rsp |-> <<"VoltageId", "u32">>, pad |-> "none"],
    VoltageSet |-> [id |-> 229379, req |-> <<"VoltageId", "u32">>, rsp |-> <<"VoltageId", "u32">>, pad |-> "none"],
    MaxVoltageGet |-> [id |-> 196613, req |-> <<"VoltageId">>, rsp |-> <<"VoltageId", "u32">>, pad |-> "none"],
    MinVoltageGet |-> [id |-> 196616, req |-> <<"VoltageId">>, rsp |-> <<"VoltageId", "u32">>, pad |-> "none"],
    TemperatureGet |-> [id |-> 196614, req |-> <<"u32">>, rsp |-> <<"u32", "u32">>, pad |-> "none"],
    MaxTemperatureGet |-> [id |-> 196618, req |-> <<"u32">>, rsp |-> <<"u32", "u32">>, pad |-> "none"],
    FramebufferAllocate |-> [id |-> 262145, req |-> <<"u32">>, rsp |-> <<"u32", "u32">>, pad |-> "none"],
    FramebufferRelease |-> [id |-> 294913, req |-> <<>>, rsp |-> <<>>, pad |-> "none"],
    BlankScreen |-> [id |-> 262146, req |-> <<"u32">>, rsp |-> <<"u32">>, pad |-> "none"],
    PhysicalSizeGet |-> [id |-> 262147, req |-> <<>>, rsp |-> <<"u32", "u32">>, pad |-> "none"],
    PhysicalSizeSet |-> [id |-> 294915, req |-> <<"u32", "u32">>, rsp |-> <<"u32", "u32">>, pad |-> "none"],
    VirtualSizeGet |-> [id |-> 262148, req |-> <<>>, rsp |-> <<"u32", "u32">>, pad |-> "none"],
    VirtualSizeSet |-> [id |-> 294916, req |-> <<"u32", "u32">>, rsp |-> <<"u32", "u32">>, pad |-> "none"],
    DepthGet |-> [id |-> 262149, req |-> <<>>, rsp |-> <<"u32">>, pad |-> "none"],
    DepthSet |-> [id |-> 294917, req |-> <<"u32">>, rsp |-> <<"u32">>, pad |-> "none"],
    PixelOrderGet |-> [id |-> 262150, req |-> <<>>, rsp |-> <<"u32">>, pad |-> "none"],
    PixelOrderSet |-> [id |-> 294918, req |-> <<"u32">>, rsp |-> <<"u32">>, pad |-> "none"],
    AlphaModeGet |-> [id |-> 262151, req |-> <<>>, rsp |-> <<"u32">>, pad |-> "none"],
    AlphaModeSet |-> [id |-> 294919, req |-> <<"u32">>, rsp |-> <<"u32">>, pad |-> "none"],
    PitchGet |-> [id |-> 262152, req |-> <<>>, rsp |-> <<"u32">>, pad |-> "none"],
    VirtualOffsetGet |-> [id |-> 262153, req |-> <<>>, rsp |-> <<"u32", "u32">>, pad |-> "none"],
    VirtualOffsetSet |-> [id |-> 294921, req |-> <<"u32", "u32">>, rsp |-> <<"u32", "u32">>, pad |-> "none"],
    OverscanGet |-> [id |-> 262154, req |-> <<>>, rsp |-> <<"u32", "u32", "u32", "u32">>, pad |-> "none"],
    OverscanSet |-> [id |-> 294922, req |-> <<"u32", "u32", "u32", "u32">>, rsp |-> <<"u32", "u32", "u32", "u32">>, pad |-> "none"],
    PaletteGet |-> [id |-> 262155, req |-> <<>>, rsp |-> <<"u32x256">>, pad |-> "none"],
    PaletteSet |-> [id |-> 294923, req |-> <<"u32", "u32", "u32x256">>, rsp |-> <<"u32">>, pad |-> "none"],
    VchiqInit |-> [id |-> 294928, req |-> <<"u32">>, rsp |-> <<"u32">>, pad |-> "none"]
  ]

TagTypes == DOMAIN Catalog

\* size_of and align_of of the field types used by the catalog
SizeOfTy(ty) ==
  CASE ty = "u32" -> 4
    [] ty = "DeviceId" -> 4
    [] ty = "ClockId" -> 4
    [] ty = "VoltageId" -> 4
    [] ty = "u8x6" -> 6
    [] ty = "u32x256" -> 1024
    [] ty = "u16" -> 2
    [] ty = "none" -> 0

AlignOfTy(ty) ==
  CASE ty = "u32" -> 4
    [] ty = "DeviceId" -> 4
    [] ty = "ClockId" -> 4
    [] ty = "VoltageId" -> 4
    [] ty = "u8x6" -> 1
    [] ty = "u32x256" -> 4
    [] ty = "u16" -> 2
    [] ty = "none" -> 1

\* repr(C) struct: offset just behind field k
RECURSIVE FieldEnd(_, _)
FieldEnd(fields, k) ==
  IF k = 0 THEN 0
  ELSE AlignUp(FieldEnd(fields, k - 1), AlignOfTy(fields[k])) + SizeOfTy(fields[k])

FieldOffset(fields, k) == AlignUp(FieldEnd(fields, k - 1), AlignOfTy(fields[k]))

RECURSIVE StructAlignUpTo(_, _)
StructAlignUpTo(fields, k) ==
  IF k = 0 THEN 1 ELSE Max(StructAlignUpTo(fields, k - 1), AlignOfTy(fields[k]))

StructAlign(fields) == StructAlignUpTo(fields, Len(fields))

StructSize(fields) == AlignUp(FieldEnd(fields, Len(fields)), StructAlign(fields))

SizeOfDataRequest(T) == StructSize(Catalog[T].req)

\* repr(C) union <Tag>Data { request, response }
SizeOfData(T) ==
  AlignUp(Max(StructSize(Catalog[T].req), StructSize(Catalog[T].rsp)),
          Max(StructAlign(Catalog[T].req), StructAlign(Catalog[T].rsp)))

SizeOfPadNone(T) == 0

SizeOfPad(T) == SizeOfTy(Catalog[T].pad)

SizeOfTagNoPadding(T) == 4 + 4 + 4 + SizeOfData(T)

\* repr(C, packed) struct <Tag> { tagid, tagsize, tagstate, tagdata, tagpadding }
SizeOfTag(T) == 4 + 4 + 4 + SizeOfData(T) + SizeOfPad(T)

InitPaddingOnes(padtype) == [i \in 1..SizeOfTy(padtype) |-> 255]

\* init_padding!: the initial bytes of the padding field
InitPadding(padtype) == [i \in 1..SizeOfTy(padtype) |-> 0]

\* the bytes of one field value in memory
EncodeField(ty, v) ==
  CASE ty = "u8x6" -> v
    [] ty = "u32x256" -> [j \in 1..1024 |-> LE32(v[((j - 1) \div 4) + 1])[((j - 1) % 4) + 1]]
    [] OTHER -> LE32(v)

\* the field value read from its bytes in memory
DecodeFieldBigEndian(ty, b) ==
  CASE ty = "u8x6" -> b
    [] ty = "u32x256" -> [j \in 1..256 |-> FromLE32(SubSeq(b, 4 * j - 3, 4 * j))]
    [] OTHER -> FromLE32([i \in 1..Len(b) |-> b[Len(b) + 1 - i]])

DecodeField(ty, b) ==
  CASE ty = "u8x6" -> b
    [] ty = "u32x256" -> [j \in 1..256 |-> FromLE32(SubSeq(b, 4 * j - 3, 4 * j))]
    [] OTHER -> FromLE32(b)

\* field k of a struct view (request or response) laid over the data bytes
ViewField(fields, data, k) ==
  DecodeField(fields[k],
              SubSeq(data, FieldOffset(fields, k) + 1,
                     FieldOffset(fields, k) + SizeOfTy(fields[k])))

\* byte i (from 0) of the union after `request: Request { fields }` was
\* written; the bytes no request field covers stay uninitialised and hold
\* whatever the stack held (junk)
DataByte(fields, args, junk, i) ==
  IF \E k \in 1..Len(fields) :
       /\ FieldOffset(fields, k) <= i
       /\ i < FieldOffset(fields, k) + SizeOfTy(fields[k])
  THEN LET k == CHOOSE k \in 1..Len(fields) :
                  /\ FieldOffset(fields, k) <= i
                  /\ i < FieldOffset(fields, k) + SizeOfTy(fields[k])
       IN EncodeField(fields[k], args[k])[i - FieldOffset(fields, k) + 1]
  ELSE junk

NoTag == [type |-> "none"]

NewStateStale(T, args, junk) ==
  [type |-> T,
   tagid |-> Catalog[T].id,
   tagsize |-> SizeOfData(T),
   tagstate |-> <<32768, 0>>,
   tagdata |-> [i \in 1..SizeOfData(T) |-> DataByte(Catalog[T].req, args, junk, i - 1)],
   tagpadding |-> InitPadding(Catalog[T].pad)]

\* <Tag>::new(args)
New(T, args, junk) ==
  [type |-> T,
   tagid |-> Catalog[T].id,
   tagsize |-> SizeOfData(T),
   tagstate |-> <<0, 0>>,
   tagdata |-> [i \in 1..SizeOfData(T) |-> DataByte(Catalog[T].req, args, junk, i - 1)],
   tagpadding |-> InitPadding(Catalog[T].pad)]

\* the tag as it lies in memory
TagBytes(t) ==
  LE32(t.tagid) \o LE32(t.tagsize) \o LEW(t.tagstate) \o t.tagdata \o t.tagpadding

\* PropertyTag::response: field k of the response view
Response(t, k) == ViewField(Catalog[t.type].rsp, t.tagdata, k)

\* field k of the request view
Request(t, k) == ViewField(Catalog[t.type].req, t.tagdata, k)

-----------------------------------------------------------------------------
(* Inputs *)

\* values of the stack bytes that new() leaves uninitialised
JunkBytes == {0, 255}

ClockIds == {3, 4}
DeviceIds == {0, 3}
VoltageIds == {1, 2}
U32Vals == {7, 16909060}
Palettes == {[j \in 1..256 |-> 16909060]}

ArgVals(ty) ==
  CASE ty = "ClockId" -> ClockIds
    [] ty = "DeviceId" -> DeviceIds
    [] ty = "VoltageId" -> VoltageIds
    [] ty = "u32x256" -> Palettes
    [] OTHER -> U32Vals

RECURSIVE ArgSeqs(_, _)
ArgSeqs(fields, k) ==
  IF k = 0 THEN {<<>>}
  ELSE {Append(p, v) : p \in ArgSeqs(fields, k - 1), v \in ArgVals(fields[k])}

ArgsOf(T) == ArgSeqs(Catalog[T].req, Len(Catalog[T].req))

-----------------------------------------------------------------------------
(* Envelopes: MailboxMessage<T> and MailboxBatch<Tags> *)

\* enum MessageState
StRequest == <<0, 0>>
StResponseOk == <<32768, 0>>
StResponseError == <<32768, 1>>

MessageStates == {StRequest, StResponseOk, StResponseError}

None == [none |-> TRUE]

FromHeaderOnly(item) ==
  [msg_size |-> 8 + SizeOfTag(item.type),
   msg_type |-> StRequest,
   msg_tag |-> item,
   msg_end |-> 0]

\* impl From<T> for MailboxMessage<T>
From(item) ==
  [msg_size |-> 12 + SizeOfTag(item.type),
   msg_type |-> StRequest,
   msg_tag |-> item,
   msg_end |-> 0]

\* struct Empty and struct Cons<Prev, Tag> { previous, tag }
EmptyList == [cons |-> FALSE]

Cons(prev, t) == [cons |-> TRUE, previous |-> prev, tag |-> t]

\* MailboxBatch::empty
Empty ==
  [msg_size |-> 12,
   msg_type |-> StRequest,
   msg_tags |-> EmptyList,
   msg_end |-> 0]

WithTagPayloadOnly(self, t) ==
  [msg_size |-> self.msg_size + t.tagsize,
   msg_type |-> self.msg_type,
   msg_tags |-> Cons(self.msg_tags, t),
   msg_end |-> self.msg_end]

\* MailboxBatch::with_tag; no bound restricts Tag to the types not yet in Tags
WithTag(self, t) ==
  [msg_size |-> self.msg_size + SizeOfTag(t.type),
   msg_type |-> self.msg_type,
   msg_tags |-> Cons(self.msg_tags, t),
   msg_end |-> self.msg_end]

\* number of Cons cells of a tag list
RECURSIVE Depth(_)
Depth(list) == IF list.cons THEN 1 + Depth(list.previous) ELSE 0

\* the tag types of a tag list, in insertion order
RECURSIVE TypesOf(_)
TypesOf(list) ==
  IF list.cons THEN Append(TypesOf(list.previous), list.tag.type) ELSE <<>>

\* trait resolution of `Tags: FindTag<T, Pos>`, Pos = Next^pos(Here):
\* Cons<Prev, T> implements FindTag<T, Here>, Cons<Prev, X> implements
\* FindTag<T, Next<Pos>> where Prev: FindTag<T, Pos>, Empty implements none
RECURSIVE ResolvesAnyType(_, _, _)
ResolvesAnyType(list, T, pos) ==
  IF ~list.cons THEN FALSE
  ELSE IF pos = 0 THEN TRUE
  ELSE ResolvesAnyType(list.previous, T, pos - 1)

RECURSIVE Resolves(_, _, _)
Resolves(list, T, pos) ==
  IF ~list.cons THEN FALSE
  ELSE IF pos = 0 THEN list.tag.type = T
  ELSE Resolves(list.previous, T, pos - 1)

FindStopsEarly(list, pos) == list.tag

\* FindTag::find for position Next^pos(Here)
RECURSIVE Find(_, _)
Find(list, pos) == IF pos = 0 THEN list.tag ELSE Find(list.previous, pos - 1)

\* the positions the compiler can infer for get_tag::<T, _>
Positions(list, T) == {pos \in 0..Depth(list) : Resolves(list, T, pos)}

RECURSIVE TagsBytesReversed(_)
TagsBytesReversed(list) ==
  IF list.cons THEN TagBytes(list.tag) \o TagsBytesReversed(list.previous) ELSE <<>>

\* the tag list in memory: Empty has size 0, a Cons holds `previous`
\* followed by `tag` (both of alignment 1, fields kept in declaration order)
RECURSIVE TagsBytes(_)
TagsBytes(list) ==
  IF list.cons THEN TagsBytes(list.previous) \o TagBytes(list.tag) ELSE <<>>

\* repr(C, align(16)): msg_size at 0, msg_type at 4, tags at 8, msg_end at
\* the next multiple of 4; bytes of the gap, if any, are padding
EnvelopeBytes(msg_size, msg_type, tagbytes, msg_end) ==
  LE32(msg_size) \o LEW(msg_type) \o tagbytes
    \o [i \in 1..(AlignUp(8 + Len(tagbytes), 4) - (8 + Len(tagbytes))) |-> 0]
    \o LE32(msg_end)

\* the message / the batch as it lies in memory, without the tail padding
MessageBytes(m) == EnvelopeBytes(m.msg_size, m.msg_type, TagBytes(m.msg_tag), m.msg_end)

BatchBytes(b) == EnvelopeBytes(b.msg_size, b.msg_type, TagsBytes(b.msg_tags), b.msg_end)

-----------------------------------------------------------------------------
(* The Mailbox handle *)

\* the execution contexts that may use the Mailbox (two cores, or the main
\* flow and an interrupt handler)
Contexts == {"c0", "c1"}

\* the receiver each exchange method of Mailbox declares: "mut" for
\* `&mut self`, "shared" for `&self`
Receiver ==
  [
    send_batch |-> "mut",
    get_firmware_revision |-> "mut",
    get_board_model |-> "mut",
    get_board_revision |-> "mut",
    get_board_mac_address |-> "mut",
    get_arm_memory |-> "mut",
    get_vc_memory |-> "mut",
    get_dma_channels |-> "mut",
    get_powerstate |-> "mut",
    set_powerstate |-> "mut",
    get_clockstate |-> "mut",
    set_clockstate |-> "mut",
    get_clockrate |-> "mut",
    set_clockrate |-> "mut",
    get_max_clockrate |-> "mut",
    get_min_clockrate |-> "mut",
    get_voltage |-> "mut",
    set_voltage |-> "mut",
    get_max_voltage |-> "mut",
    get_min_voltage |-> "mut",
    get_temperature |-> "mut",
    get_max_temperature |-> "shared",
    set_vchiq_slot_base |-> "mut"
  ]

Methods == DOMAIN Receiver

NoCall == [method |-> "none", at |-> "none"]

\* the references to the one Mailbox value that may be live together: any
\* number of `&Mailbox`, or a single `&mut Mailbox`
BorrowAllowed(h) ==
  \A c \in Contexts : h[c] = "mut" => \A d \in Contexts \ {c} : h[d] = "none"

\* a method can be called through the reference the context holds
CallAllowed(m, h) ==
  IF Receiver[m] = "mut" THEN h = "mut" ELSE h \in {"shared", "mut"}

-----------------------------------------------------------------------------
(* Initial state *)

Idle ==
  /\ pc = "idle"
  /\ channel = 0
  /\ ptr = <<0, 0>>
  /\ uncached = <<0, 0>>
  /\ st1full = FALSE
  /\ seen = <<0, 0>>
  /\ wlog = <<>>
  /\ fifo0 = <<>>
  /\ mem = None
  /\ vcdone = FALSE
  /\ foreign = 0
  /\ result = None
  /\ trace = <<>>
  /\ rdata = <<>>
  /\ released = <<>>

Init ==
  /\ tag = NoTag
  /\ newIn = None
  /\ kind = "none"
  /\ buf = None
  /\ hist = <<>>
  /\ got = None
  /\ Idle
  /\ holds = [c \in Contexts |-> "none"]
  /\ call = [c \in Contexts |-> NoCall]

-----------------------------------------------------------------------------
(* Tag codec: construction of tags and single tag messages *)

\* let tag = <T>::new(args)
NewTag ==
  /\ kind = "none"
  /\ tag = NoTag
  /\ \E T \in TagTypes : \E a \in ArgsOf(T) : \E j \in JunkBytes :
       /\ tag' = New(T, a, j)
       /\ newIn' = [type |-> T, args |-> a]
  /\ UNCHANGED <<callerVars, xchgVars, handleVars>>

\* let message: MailboxMessage<T> = tag.into()
IntoMessage ==
  /\ kind = "none"
  /\ tag # NoTag
  /\ kind' = "message"
  /\ buf' = From(tag)
  /\ hist' = <<tag>>
  /\ UNCHANGED <<tag, newIn, got, xchgVars, handleVars>>

NextTag == NewTag \/ IntoMessage

SpecTag == Init /\ [][NextTag]_vars

-----------------------------------------------------------------------------
(* Batch composition *)

\* the tag types and the tags used to compose batches
BatchTypes == {"ClockrateGet", "MaxClockrateGet", "BoardMACAddressGet"}

BatchTags ==
  {New("ClockrateGet", <<4>>, j) : j \in JunkBytes}
    \cup {New("MaxClockrateGet", <<3>>, j) : j \in JunkBytes}
    \cup {New("BoardMACAddressGet", <<>>, j) : j \in JunkBytes}

\* let batch = MailboxBatch::empty()
EmptyBatch ==
  /\ kind = "none"
  /\ pc = "idle"
  /\ kind' = "batch"
  /\ buf' = Empty
  /\ hist' = <<>>
  /\ got' = None
  /\ UNCHANGED <<codecVars, xchgVars, handleVars>>

\* let batch = batch.with_tag(t), t a new tag of tags, on a batch of less
\* than n tags
AppendTag(n, tags) ==
  /\ kind = "batch"
  /\ pc = "idle"
  /\ Len(hist) < n
  /\ \E t \in tags :
       /\ buf' = WithTag(buf, t)
       /\ hist' = Append(hist, t)
  /\ got' = None
  /\ UNCHANGED <<kind, codecVars, xchgVars, handleVars>>

\* batch.get_tag::<T, Next^pos(Here)>(): compiles only when the FindTag
\* bound resolves
GetTagAt ==
  /\ kind = "batch"
  /\ pc = "idle"
  /\ got = None
  /\ \E T \in BatchTypes : \E pos \in 0..MaxTags :
       got' = IF Resolves(buf.msg_tags, T, pos)
              THEN [ok |-> TRUE, type |-> T, pos |-> pos,
                    tag |-> Find(buf.msg_tags, pos)]
              ELSE [ok |-> FALSE, type |-> T, pos |-> pos]
  /\ UNCHANGED <<kind, buf, hist, codecVars, xchgVars, handleVars>>

\* batch.get_tag::<T, _>(): compiles only when exactly one position resolves
GetTag ==
  /\ kind = "batch"
  /\ pc = "idle"
  /\ got = None
  /\ \E T \in BatchTypes :
       got' = IF Cardinality(Positions(buf.msg_tags, T)) = 1
              THEN LET pos == CHOOSE p \in Positions(buf.msg_tags, T) : TRUE
                   IN [ok |-> TRUE, type |-> T, pos |-> pos,
                       tag |-> Find(buf.msg_tags, pos)]
              ELSE [ok |-> FALSE, type |-> T, pos |-> -1]
  /\ UNCHANGED <<kind, buf, hist, codecVars, xchgVars, handleVars>>

\* the batch goes out of scope
DropBatch ==
  /\ kind = "batch"
  /\ pc = "idle"
  /\ kind' = "none"
  /\ buf' = None
  /\ hist' = <<>>
  /\ got' = None
  /\ UNCHANGED <<codecVars, xchgVars, handleVars>>

NextBatch == EmptyBatch \/ AppendTag(MaxTags, BatchTags) \/ GetTagAt \/ GetTag \/ DropBatch

SpecBatch == Init /\ [][NextBatch]_vars

\* let batch = MailboxBatch::empty().with_tag(tag) for the tag last built
IntoBatch ==
  /\ kind = "none"
  /\ pc = "idle"
  /\ tag # NoTag
  /\ kind' = "batch"
  /\ buf' = WithTag(Empty, tag)
  /\ hist' = <<tag>>
  /\ got' = None
  /\ UNCHANGED <<codecVars, xchgVars, handleVars>>

\* messages of every tag type and batches that start empty or with a tag of
\* any type
NextEnvelope ==
  \/ NewTag
  \/ IntoMessage
  \/ IntoBatch
  \/ EmptyBatch
  \/ AppendTag(MaxSendTags, BatchTags)
  \/ DropBatch

SpecEnvelope == Init /\ [][NextEnvelope]_vars

-----------------------------------------------------------------------------
(* Transport handshake: send_message / send_batch, mb_write, mb_read *)

\* enum MailboxChannel
PowerMgmt == 0
FrameBuffer == 1
VirtualUart == 2
PropertyTagsVc == 8
PropertyTagsArm == 9

MAILBOX_FULL == <<32768, 0>>
MAILBOX_EMPTY == <<16384, 0>>

\* w | 0xC000_0000
OrAlias(w) == << (w[1] % 16384) + 49152, w[2] >>

\* w ^ 0xC000_0000
XorAlias(w) == << (w[1] % 16384) + (3 - (w[1] \div 16384)) * 16384, w[2] >>

\* w & 0xFFFF_FFF0 and w & 0xF
ClearLow4(w) == << w[1], w[2] - (w[2] % 16) >>

Low4(w) == w[2] % 16

\* (status & flag) != 0 for a one bit flag of the upper half word
HasFlag(status, flag) == (status[1] \div flag[1]) % 2 = 1

SubmitValueWideMask(ch, data) ==
  << data[1], (data[2] - (data[2] % 256)) + (ch % 16) >>

\* mb_write: (data & 0xFFFF_FFF0) | ((channel as u8) & 0xF) as u32
SubmitValue(ch, data) == << data[1], (data[2] - (data[2] % 16)) + (ch % 16) >>

\* the registers as the ARM reads them
Mailbox1Status == IF st1full THEN MAILBOX_FULL ELSE <<0, 0>>

Mailbox0Status == IF fifo0 = <<>> THEN MAILBOX_EMPTY ELSE <<0, 0>>

\* addresses of the buffer on the stack (16 byte aligned, in ARM memory)
StackAddrs == { <<8, 0>>, <<16127, 65520>> }

MethodChannelBatchOnArm ==
  [
    send_batch |-> PropertyTagsArm,
    get_firmware_revision |-> PropertyTagsVc,
    get_board_model |-> PropertyTagsVc,
    get_board_revision |-> PropertyTagsVc,
    get_board_mac_address |-> PropertyTagsVc,
    get_arm_memory |-> PropertyTagsVc,
    get_vc_memory |-> PropertyTagsVc,
    get_dma_channels |-> PropertyTagsVc,
    get_powerstate |-> PropertyTagsVc,
    set_powerstate |-> PropertyTagsVc,
    get_clockstate |-> PropertyTagsVc,
    set_clockstate |-> PropertyTagsVc,
    get_clockrate |-> PropertyTagsVc,
    set_clockrate |-> PropertyTagsVc,
    get_max_clockrate |-> PropertyTagsVc,
    get_min_clockrate |-> PropertyTagsVc,
    get_voltage |-> PropertyTagsVc,
    set_voltage |-> PropertyTagsVc,
    get_max_voltage |-> PropertyTagsVc,
    get_min_voltage |-> PropertyTagsVc,
    get_temperature |-> PropertyTagsVc,
    get_max_temperature |-> PropertyTagsVc,
    set_vchiq_slot_base |-> PropertyTagsVc
  ]

\* the MailboxChannel each method of Mailbox hands to send_message /
\* send_batch
MethodChannel ==
  [
    send_batch |-> PropertyTagsVc,
    get_firmware_revision |-> PropertyTagsVc,
    get_board_model |-> PropertyTagsVc,
    get_board_revision |-> PropertyTagsVc,
    get_board_mac_address |-> PropertyTagsVc,
    get_arm_memory |-> PropertyTagsVc,
    get_vc_memory |-> PropertyTagsVc,
    get_dma_channels |-> PropertyTagsVc,
    get_powerstate |-> PropertyTagsVc,
    set_powerstate |-> PropertyTagsVc,
    get_clockstate |-> PropertyTagsVc,
    set_clockstate |-> PropertyTagsVc,
    get_clockrate |-> PropertyTagsVc,
    set_clockrate |-> PropertyTagsVc,
    get_max_clockrate |-> PropertyTagsVc,
    get_min_clockrate |-> PropertyTagsVc,
    get_voltage |-> PropertyTagsVc,
    set_voltage |-> PropertyTagsVc,
    get_max_voltage |-> PropertyTagsVc,
    get_min_voltage |-> PropertyTagsVc,
    get_temperature |-> PropertyTagsVc,
    get_max_temperature |-> PropertyTagsVc,
    set_vchiq_slot_base |-> PropertyTagsVc
  ]

\* the channels the Mailbox methods send on
SendChannels == {MethodChannel[m] : m \in Methods}

\* values of other channels the VideoCore may deliver
ForeignValues == { <<0, 16 + PowerMgmt>> }

\* the tags sent as a message (Mailbox::get_clockrate) and in a batch
MessageTags == {New("ClockrateGet", <<4>>, j) : j \in JunkBytes}

SendTags == MessageTags \cup {New("FramebufferRelease", <<>>, 0)}

\* message_state values the VideoCore may leave in the buffer: unchanged,
\* success, error and a word that is no MessageState
VcStates == {StRequest, StResponseOk, StResponseError, <<32768, 2>>}

\* tag_state values the VideoCore may leave in a tag: unchanged, response of
\* the size of the buffer, response larger than the buffer
VcTagStates(t) == { t.tagstate, <<32768, t.tagsize>>, <<32768, t.tagsize + 4>> }

\* x.into() for a new tag x, as the get_* / set_* methods of Mailbox do
MakeMessage ==
  /\ kind = "none"
  /\ pc = "idle"
  /\ \E t \in MessageTags :
       /\ buf' = From(t)
       /\ hist' = <<t>>
  /\ kind' = "message"
  /\ got' = None
  /\ UNCHANGED <<codecVars, xchgVars, handleVars>>

\* entry of send_message / send_batch on one of the channels chans with the
\* buffer at one of the addresses addrs: the buffer is moved to the stack
\* frame, its address is taken and or-ed with the uncached alias
SendOn(k, chans, addrs) ==
  /\ kind = k
  /\ pc = "idle"
  /\ \E ch \in chans : channel' = ch
  /\ \E a \in addrs :
       /\ ptr' = a
       /\ uncached' = OrAlias(a)
  /\ mem' = buf
  /\ pc' = "clean"
  /\ seen' = <<0, 0>>
  /\ wlog' = <<>>
  /\ vcdone' = FALSE
  /\ foreign' = 0
  /\ result' = None
  /\ trace' = <<>>
  /\ rdata' = <<>>
  /\ released' = <<>>
  /\ UNCHANGED <<st1full, fifo0, callerVars, codecVars, handleVars>>

Send(k) == SendOn(k, SendChannels, StackAddrs)

SendMessage == Send("message")

SendBatch == Send("batch")

\* the tags of a buffer in insertion order
RECURSIVE TagsOf(_)
TagsOf(list) == IF list.cons THEN Append(TagsOf(list.previous), list.tag) ELSE <<>>

BufferTags(k, b) == IF k = "message" THEN <<b.msg_tag>> ELSE TagsOf(b.msg_tags)

\* the steps of one exchange in program order (interface.rs 37-54 / 66-84)
StepOrder == <<"clean", "write", "read", "invalidate", "reconstruct", "classify">>

\* cache::cleaninvalidate() before the write
CleanCache ==
  /\ pc = "clean"
  /\ pc' = "w_status"
  /\ trace' = Append(trace, "clean")
  /\ UNCHANGED <<rdata, channel, ptr, uncached, released, st1full, seen, wlog,
                 fifo0, mem, vcdone, foreign, result, callerVars, codecVars,
                 handleVars>>

MbWriteStatusNoWait ==
  /\ pc = "w_status"
  /\ seen' = Mailbox1Status
  /\ pc' = "w_store"
  /\ UNCHANGED <<trace, rdata, channel, ptr, uncached, released, st1full,
                 wlog, fifo0, mem, vcdone, foreign, result, callerVars,
                 codecVars, handleVars>>

MbWriteStatusTimesOut ==
  /\ pc = "w_status"
  /\ seen' = Mailbox1Status
  /\ pc' = IF HasFlag(Mailbox1Status, MAILBOX_FULL) THEN "done" ELSE "w_store"
  /\ result' = IF HasFlag(Mailbox1Status, MAILBOX_FULL)
               THEN [ok |-> FALSE, state |-> mem.msg_type, value |-> None]
               ELSE result
  /\ UNCHANGED <<trace, rdata, channel, ptr, uncached, released, st1full,
                 wlog, fifo0, mem, vcdone, foreign, callerVars, codecVars,
                 handleVars>>

\* mb_write: while (MAILBOX1_STATUS & MAILBOX_FULL) != 0 {}
MbWriteStatus ==
  /\ pc = "w_status"
  /\ seen' = Mailbox1Status
  /\ pc' = IF HasFlag(Mailbox1Status, MAILBOX_FULL) THEN "w_status" ELSE "w_store"
  /\ UNCHANGED <<trace, rdata, channel, ptr, uncached, released, st1full,
                 wlog, fifo0, mem, vcdone, foreign, result, callerVars,
                 codecVars, handleVars>>

\* mb_write: MAILBOX1_WRITE.set(value)
MbWriteStore ==
  /\ pc = "w_store"
  /\ wlog' = Append(wlog, SubmitValue(channel, uncached))
  /\ pc' = "r_status"
  /\ trace' = Append(trace, "write")
  /\ UNCHANGED <<rdata, channel, ptr, uncached, released, st1full, seen,
                 fifo0, mem, vcdone, foreign, result, callerVars, codecVars,
                 handleVars>>

\* mb_read: while (MAILBOX0_STATUS & MAILBOX_EMPTY) != 0 {}
MbReadStatusGivesUp ==
  /\ pc = "r_status"
  /\ seen' = Mailbox0Status
  /\ pc' = IF HasFlag(Mailbox0Status, MAILBOX_EMPTY) THEN "done" ELSE "r_load"
  /\ result' = IF HasFlag(Mailbox0Status, MAILBOX_EMPTY)
               THEN [ok |-> FALSE, state |-> mem.msg_type, value |-> None]
               ELSE result
  /\ released' = IF HasFlag(Mailbox0Status, MAILBOX_EMPTY)
                 THEN <<"reconstructed">>
                 ELSE released
  /\ UNCHANGED <<trace, rdata, channel, ptr, uncached, st1full, wlog, fifo0,
                 mem, vcdone, foreign, callerVars, codecVars, handleVars>>

MbReadStatus ==
  /\ pc = "r_status"
  /\ seen' = Mailbox0Status
  /\ pc' = IF HasFlag(Mailbox0Status, MAILBOX_EMPTY) THEN "r_status" ELSE "r_load"
  /\ UNCHANGED <<trace, rdata, channel, ptr, uncached, released, st1full,
                 wlog, fifo0, mem, vcdone, foreign, result, callerVars,
                 codecVars, handleVars>>

MbReadLoadSkipsInvalidate ==
  /\ pc = "r_load"
  /\ fifo0 # <<>>
  /\ seen' = Head(fifo0)
  /\ fifo0' = Tail(fifo0)
  /\ pc' = IF Low4(Head(fifo0)) = channel THEN "readback" ELSE "r_status"
  /\ trace' = IF Low4(Head(fifo0)) = channel THEN Append(trace, "read") ELSE trace
  /\ rdata' = IF Low4(Head(fifo0)) = channel THEN ClearLow4(Head(fifo0)) ELSE rdata
  /\ UNCHANGED <<channel, ptr, uncached, released, st1full, wlog, mem, vcdone,
                 foreign, result, callerVars, codecVars, handleVars>>

MbReadLoadAnyChannel ==
  /\ pc = "r_load"
  /\ fifo0 # <<>>
  /\ seen' = Head(fifo0)
  /\ fifo0' = Tail(fifo0)
  /\ pc' = "invalidate"
  /\ trace' = Append(trace, "read")
  /\ rdata' = ClearLow4(Head(fifo0))
  /\ UNCHANGED <<channel, ptr, uncached, released, st1full, wlog, mem, vcdone,
                 foreign, result, callerVars, codecVars, handleVars>>

MbReadLoadResend ==
  /\ pc = "r_load"
  /\ fifo0 # <<>>
  /\ seen' = Head(fifo0)
  /\ fifo0' = Tail(fifo0)
  /\ pc' = IF Low4(Head(fifo0)) = channel THEN "invalidate" ELSE "r_status"
  /\ wlog' = IF Low4(Head(fifo0)) = channel
             THEN wlog ELSE Append(wlog, SubmitValue(channel, uncached))
  /\ trace' = IF Low4(Head(fifo0)) = channel THEN Append(trace, "read") ELSE trace
  /\ rdata' = IF Low4(Head(fifo0)) = channel THEN ClearLow4(Head(fifo0)) ELSE rdata
  /\ UNCHANGED <<channel, ptr, uncached, released, st1full, mem, vcdone,
                 foreign, result, callerVars, codecVars, handleVars>>

\* mb_read: data = MAILBOX0_READ.get(); return Ok(data & 0xFFFF_FFF0) when
\* (data & 0xF) == channel, else go round the loop
MbReadLoad ==
  /\ pc = "r_load"
  /\ fifo0 # <<>>
  /\ seen' = Head(fifo0)
  /\ fifo0' = Tail(fifo0)
  /\ pc' = IF Low4(Head(fifo0)) = channel THEN "invalidate" ELSE "r_status"
  /\ trace' = IF Low4(Head(fifo0)) = channel THEN Append(trace, "read") ELSE trace
  /\ rdata' = IF Low4(Head(fifo0)) = channel THEN ClearLow4(Head(fifo0)) ELSE rdata
  /\ UNCHANGED <<channel, ptr, uncached, released, st1full, wlog, mem, vcdone,
                 foreign, result, callerVars, codecVars, handleVars>>

\* cache::cleaninvalidate() after the read
InvalidateCache ==
  /\ pc = "invalidate"
  /\ pc' = "readback"
  /\ trace' = Append(trace, "invalidate")
  /\ UNCHANGED <<rdata, channel, ptr, uncached, released, st1full, seen, wlog,
                 fifo0, mem, vcdone, foreign, result, callerVars, codecVars,
                 handleVars>>

\* match result.state() { ResponseOk => Ok(result), _ => Err(..) }, as a set
\* of outcomes: msg_type is a MessageState, a repr(u32) enum of three
\* values; a word that is none of them is no valid MessageState and the
\* behaviour of the match on it is undefined
Classify(st) ==
  IF st = StResponseOk THEN {"Ok"}
  ELSE IF st \in MessageStates THEN {"Err"}
  ELSE {"Ok", "Err"}

ClassifyBatchAnyResponse(st) ==
  IF st[1] >= 32768 /\ st \in MessageStates THEN {"Ok"}
  ELSE IF st \in MessageStates THEN {"Err"}
  ELSE {"Ok", "Err"}

\* send_batch: if let MessageState::ResponseOk = result.msg_type
\*             { Ok(result) } else { Err(..) }
ClassifyBatch(st) ==
  IF st = StResponseOk THEN {"Ok"}
  ELSE IF st \in MessageStates THEN {"Err"}
  ELSE {"Ok", "Err"}

\* the classification send_message (k = "message") and send_batch
\* (k = "batch") make of the state word read back
ClassifyFor(k, st) == IF k = "batch" THEN ClassifyBatch(st) ELSE Classify(st)

\* what the caller gets: Ok(result) carries the buffer that was read back,
\* Err("unable to send ...") carries a string only; state is (history) the
\* message_state word that was classified
Outcome(o, value) ==
  [ok |-> o = "Ok", state |-> value.msg_type,
   value |-> IF o = "Ok" THEN value ELSE None]

\* read_volatile(a): the buffer when a is its address, else whatever lies at
\* a, in the shape of the buffer with any message_state word
ReadVolatile(a) ==
  IF a = ptr THEN {mem} ELSE {[mem EXCEPT !.msg_type = s] : s \in VcStates}

\* the values that go out of scope inside send_message / send_batch: the
\* original was handed to core::mem::forget, the reconstructed value is moved
\* out in Ok(result) and dropped at the end of the function otherwise
DroppedInside(o) == IF o = "Ok" THEN <<>> ELSE <<"reconstructed">>

ReadBackTagChecked ==
  /\ pc = "readback"
  /\ \E v \in ReadVolatile(XorAlias(uncached)) :
     \E o \in ClassifyFor(kind, v.msg_type) :
       /\ result' = Outcome(IF \A i \in 1..Len(BufferTags(kind, v)) :
                                  BufferTags(kind, v)[i].tagstate
                                    = <<32768, BufferTags(kind, v)[i].tagsize>>
                            THEN o ELSE "Err", v)
       /\ released' = DroppedInside(o)
  /\ pc' = "done"
  /\ trace' = trace \o <<"reconstruct", "classify">>
  /\ UNCHANGED <<rdata, channel, ptr, uncached, st1full, seen, wlog, fifo0,
                 mem, vcdone, foreign, callerVars, codecVars, handleVars>>

ReadBackNoForget ==
  /\ pc = "readback"
  /\ \E v \in ReadVolatile(XorAlias(uncached)) :
     \E o \in ClassifyFor(kind, v.msg_type) :
       /\ result' = Outcome(o, v)
       /\ released' = DroppedInside(o) \o <<"original">>
  /\ pc' = "done"
  /\ trace' = trace \o <<"reconstruct", "classify">>
  /\ UNCHANGED <<rdata, channel, ptr, uncached, st1full, seen, wlog, fifo0,
                 mem, vcdone, foreign, callerVars, codecVars, handleVars>>

\* result = read_volatile((uncached ^ 0xC000_0000) as *mut _); forget(buffer);
\* classification of result.msg_type
ReadBack ==
  /\ pc = "readback"
  /\ \E v \in ReadVolatile(XorAlias(uncached)) :
     \E o \in ClassifyFor(kind, v.msg_type) :
       /\ result' = Outcome(o, v)
       /\ released' = DroppedInside(o)
  /\ pc' = "done"
  /\ trace' = trace \o <<"reconstruct", "classify">>
  /\ UNCHANGED <<rdata, channel, ptr, uncached, st1full, seen, wlog, fifo0,
                 mem, vcdone, foreign, callerVars, codecVars, handleVars>>

\* send_message / send_batch returns; the caller is done with the result and
\* the value of an Ok goes out of scope there
Return ==
  /\ pc = "done"
  /\ pc' = "idle"
  /\ kind' = "none"
  /\ buf' = None
  /\ hist' = <<>>
  /\ got' = None
  /\ channel' = 0
  /\ ptr' = <<0, 0>>
  /\ uncached' = <<0, 0>>
  /\ seen' = <<0, 0>>
  /\ wlog' = <<>>
  /\ mem' = None
  /\ vcdone' = FALSE
  /\ foreign' = 0
  /\ result' = None
  /\ trace' = <<>>
  /\ rdata' = <<>>
  /\ released' = IF result.ok THEN Append(released, "reconstructed") ELSE released
  /\ UNCHANGED <<st1full, fifo0, codecVars, handleVars>>

(* The VideoCore *)

\* the ARM -> VideoCore FIFO fills up / drains
Mailbox1Fill ==
  /\ pc \in {"clean", "w_status"}
  /\ ~st1full
  /\ st1full' = TRUE
  /\ UNCHANGED <<pc, trace, rdata, channel, ptr, uncached, released, seen,
                 wlog, fifo0, mem, vcdone, foreign, result, callerVars,
                 codecVars, handleVars>>

Mailbox1Drain ==
  /\ st1full
  /\ st1full' = FALSE
  /\ UNCHANGED <<pc, trace, rdata, channel, ptr, uncached, released, seen,
                 wlog, fifo0, mem, vcdone, foreign, result, callerVars,
                 codecVars, handleVars>>

\* the tag list with the tag states st[1], st[2], ... (in insertion order)
RECURSIVE WithTagStates(_, _)
WithTagStates(list, st) ==
  IF list.cons
  THEN Cons(WithTagStates(list.previous, st),
            [list.tag EXCEPT !.tagstate = st[Depth(list)]])
  ELSE list

\* the tag state sequences the VideoCore may leave for a sequence of tags
RECURSIVE TagStateSeqs(_, _)
TagStateSeqs(tags, n) ==
  IF n = 0 THEN {<<>>}
  ELSE {Append(p, v) : p \in TagStateSeqs(tags, n - 1), v \in VcTagStates(tags[n])}

\* the VideoCore takes the request written to MAILBOX1_WRITE, processes the
\* buffer at the address it names and answers with the value it was given
VcAnswer ==
  /\ wlog # <<>>
  /\ ~vcdone
  /\ pc \in {"r_status", "r_load"}
  /\ \E ms \in VcStates :
     \E st \in TagStateSeqs(BufferTags(kind, mem), Len(BufferTags(kind, mem))) :
       mem' = IF kind = "message"
              THEN [mem EXCEPT !.msg_type = ms, !.msg_tag.tagstate = st[1]]
              ELSE [mem EXCEPT !.msg_type = ms,
                               !.msg_tags = WithTagStates(mem.msg_tags, st)]
  /\ fifo0' = Append(fifo0, wlog[Len(wlog)])
  /\ vcdone' = TRUE
  /\ UNCHANGED <<pc, trace, rdata, channel, ptr, uncached, released, st1full,
                 seen, wlog, foreign, result, callerVars, codecVars,
                 handleVars>>

\* the VideoCore delivers a value of another channel
VcForeign ==
  /\ pc \notin {"idle", "done"}
  /\ foreign < MaxForeign
  /\ \E v \in ForeignValues : fifo0' = Append(fifo0, v)
  /\ foreign' = foreign + 1
  /\ UNCHANGED <<pc, trace, rdata, channel, ptr, uncached, released, st1full,
                 seen, wlog, mem, vcdone, result, callerVars, codecVars,
                 handleVars>>

Next ==
  \/ MakeMessage
  \/ EmptyBatch
  \/ AppendTag(MaxSendTags, SendTags)
  \/ SendMessage
  \/ SendBatch
  \/ CleanCache
  \/ MbWriteStatus
  \/ MbWriteStore
  \/ MbReadStatus
  \/ MbReadLoad
  \/ InvalidateCache
  \/ ReadBack
  \/ Return
  \/ Mailbox1Fill
  \/ Mailbox1Drain
  \/ VcAnswer
  \/ VcForeign

Spec == Init /\ [][Next]_vars

\* the steps of send_message / send_batch the ARM core executes
ArmStep ==
  \/ CleanCache
  \/ MbWriteStatus
  \/ MbWriteStore
  \/ MbReadStatus
  \/ MbReadLoad
  \/ InvalidateCache
  \/ ReadBack

\* messages and short batches, exchanged by a core that keeps executing the
\* exchange it has entered; nothing is assumed of the VideoCore
NextFair ==
  \/ MakeMessage
  \/ EmptyBatch
  \/ AppendTag(MaxFairTags, SendTags)
  \/ SendMessage
  \/ SendBatch
  \/ ArmStep
  \/ Return
  \/ Mailbox1Fill
  \/ Mailbox1Drain
  \/ VcAnswer
  \/ VcForeign

SpecFair == Init /\ [][NextFair]_vars /\ WF_vars(ArmStep)

-----------------------------------------------------------------------------
(* Contexts calling the methods of one Mailbox *)

\* context c takes a reference to the Mailbox: `&mailbox` or `&mut mailbox`
TakeReference(c) ==
  /\ holds[c] = "none"
  /\ \E k \in {"shared", "mut"} :
       /\ BorrowAllowed([holds EXCEPT ![c] = k])
       /\ holds' = [holds EXCEPT ![c] = k]
  /\ UNCHANGED <<call, codecVars, callerVars, xchgVars>>

\* the reference of context c goes out of scope
DropReference(c) ==
  /\ holds[c] # "none"
  /\ call[c] = NoCall
  /\ holds' = [holds EXCEPT ![c] = "none"]
  /\ UNCHANGED <<call, codecVars, callerVars, xchgVars>>

\* context c calls an exchange method through its reference
CallMethod(c) ==
  /\ call[c] = NoCall
  /\ holds[c] # "none"
  /\ \E m \in Methods :
       /\ CallAllowed(m, holds[c])
       /\ call' = [call EXCEPT ![c] = [method |-> m, at |-> "entered"]]
  /\ UNCHANGED <<holds, codecVars, callerVars, xchgVars>>

\* the exchange of context c has stored its request (mb_write returned)
MethodWrite(c) ==
  /\ call[c].at = "entered"
  /\ call' = [call EXCEPT ![c].at = "written"]
  /\ UNCHANGED <<holds, codecVars, callerVars, xchgVars>>

\* the exchange of context c has read its answer (mb_read returned)
MethodRead(c) ==
  /\ call[c].at = "written"
  /\ call' = [call EXCEPT ![c].at = "read"]
  /\ UNCHANGED <<holds, codecVars, callerVars, xchgVars>>

\* the method returns to context c
MethodReturn(c) ==
  /\ call[c].at = "read"
  /\ call' = [call EXCEPT ![c] = NoCall]
  /\ UNCHANGED <<holds, codecVars, callerVars, xchgVars>>

NextHandle ==
  \E c \in Contexts :
    \/ TakeReference(c)
    \/ DropReference(c)
    \/ CallMethod(c)
    \/ MethodWrite(c)
    \/ MethodRead(c)
    \/ MethodReturn(c)

SpecHandle == Init /\ [][NextHandle]_vars

-----------------------------------------------------------------------------
(* The handshake over every channel and a range of buffer addresses *)

\* enum MailboxChannel
AnyChannels == {PowerMgmt, FrameBuffer, VirtualUart, PropertyTagsVc, PropertyTagsArm}

\* 16 byte aligned values of `msg_ptr as u32`: addresses of ARM memory, below
\* the peripherals at 0x3F00_0000, that between them have every address bit
\* 4..29 set and clear, and addresses with bit 30 or bit 31 set
AlignedAddrs ==
  { <<hi, lo>> : hi \in {0, 1, 4660, 16127, 20480, 40960},
                 lo \in {16, 4080, 43680, 65520} }

\* send_message(channel, message) for any MailboxChannel
SendAny == SendOn("message", AnyChannels, AlignedAddrs)

NextAddr ==
  \/ MakeMessage
  \/ SendAny
  \/ CleanCache
  \/ MbWriteStatus
  \/ MbWriteStore
  \/ MbReadStatus
  \/ MbReadLoad
  \/ InvalidateCache
  \/ ReadBack
  \/ Return
  \/ VcAnswer

SpecAddr == Init /\ [][NextAddr]_vars

-----------------------------------------------------------------------------
(* A message exchanged with a VideoCore that echoes the buffer *)

\* the VideoCore leaves the buffer as it is but for message_state, set to
\* ResponseOk, and the response bit (bit 31) of tag_state
VcEcho ==
  /\ wlog # <<>>
  /\ ~vcdone
  /\ kind = "message"
  /\ pc \in {"r_status", "r_load"}
  /\ mem' = [mem EXCEPT !.msg_type = StResponseOk,
                        !.msg_tag.tagstate = <<32768 + (@[1] % 32768), @[2]>>]
  /\ fifo0' = Append(fifo0, wlog[Len(wlog)])
  /\ vcdone' = TRUE
  /\ UNCHANGED <<pc, trace, rdata, channel, ptr, uncached, released, st1full,
                 seen, wlog, foreign, result, callerVars, codecVars,
                 handleVars>>

NextEcho ==
  \/ NewTag
  \/ IntoMessage
  \/ SendMessage
  \/ CleanCache
  \/ MbWriteStatus
  \/ MbWriteStore
  \/ MbReadStatus
  \/ MbReadLoad
  \/ InvalidateCache
  \/ ReadBack
  \/ Return
  \/ VcEcho

SpecEcho == Init /\ [][NextEcho]_vars

-----------------------------------------------------------------------------
(* Properties of the transport (Spec) *)

-----------------------------------------------------------------------------
(* Properties of batch composition (SpecBatch) *)

\* summed encoded size of the first k tags of a sequence of tags
RECURSIVE SumLen(_, _)
SumLen(tags, k) == IF k = 0 THEN 0 ELSE SumLen(tags, k - 1) + Len(TagBytes(tags[k]))

\* C2: a batch never holds two tags of the same type (with_tag rejects a
\* tag whose type is already in the batch)
C2_NoDuplicateTypes ==
  kind = "batch" =>
    \A i, j \in 1..Len(TypesOf(buf.msg_tags)) :
      i # j => TypesOf(buf.msg_tags)[i] # TypesOf(buf.msg_tags)[j]

\* C3: msg_size of a batch is 12 plus the summed encoded sizes of the tags
\* appended so far (12 for the empty batch)
C3_TotalSize ==
  kind = "batch" =>
    /\ Depth(buf.msg_tags) = Len(hist)
    /\ buf.msg_size = 12 + SumLen(hist, Len(hist))
    /\ WordAt(BatchBytes(buf), 0) = 12 + SumLen(hist, Len(hist))

C3_Witness ==
  /\ kind = "batch"
  /\ Len(hist) = 3
  /\ hist[2].type = "BoardMACAddressGet"
  /\ buf.msg_size = 72

\* C4: the k-th appended tag lies at byte offset 8 plus the summed sizes of
\* the tags appended before it, whatever is appended after it
C4_Contiguous ==
  kind = "batch" =>
    \A k \in 1..Len(hist) :
      LET off == 8 + SumLen(hist, k - 1) IN
        /\ SubSeq(BatchBytes(buf), off + 1, off + Len(TagBytes(hist[k])))
             = TagBytes(hist[k])
        /\ WordAt(BatchBytes(buf), 2 + (SumLen(hist, k - 1) \div 4))
             = Catalog[hist[k].type].id

C4_Witness ==
  /\ kind = "batch"
  /\ TypesOf(buf.msg_tags) = <<"ClockrateGet", "MaxClockrateGet", "BoardMACAddressGet">>
  /\ WordAt(BatchBytes(buf), 2) = 196610
  /\ WordAt(BatchBytes(buf), 7) = 196612
  /\ WordAt(BatchBytes(buf), 12) = 65539

\* C5: get_tag::<T>() returns the tag of type T that was appended, whatever
\* was appended before or after it; it resolves for every type that was
\* appended once
C5_GetTagReturnsAppended ==
  /\ (got # None /\ got.ok) =>
       /\ got.pos < Len(hist)
       /\ got.tag = hist[Len(hist) - got.pos]
       /\ got.tag.type = got.type
  /\ kind = "batch" =>
       \A k \in 1..Len(hist) :
         (\A i \in 1..Len(hist) : hist[i].type = hist[k].type => i = k)
           => /\ Positions(buf.msg_tags, hist[k].type) = {Len(hist) - k}
              /\ Find(buf.msg_tags, Len(hist) - k) = hist[k]

C5_Witness ==
  /\ got # None
  /\ got.ok
  /\ Len(hist) = 3
  /\ got.pos = 2
  /\ got.type = "ClockrateGet"
  /\ hist[2].type = "MaxClockrateGet"
  /\ hist[3].type = "BoardMACAddressGet"
  /\ Request(got.tag, 1) = 4

\* C6: get_tag::<T>() is rejected for a type the batch was not built with;
\* when it is accepted the tag it yields is a tag of type T of the batch
C6_GetTagOnlyForAppended ==
  got # None =>
    /\ got.ok => /\ got.tag.type = got.type
                 /\ \E k \in 1..Len(hist) : hist[k] = got.tag
    /\ (\A k \in 1..Len(hist) : hist[k].type # got.type) => ~got.ok

C6_Witness ==
  /\ got # None
  /\ ~got.ok
  /\ Len(hist) = 2
  /\ \A k \in 1..Len(hist) : hist[k].type # got.type

-----------------------------------------------------------------------------
(* Properties of the tag codec (SpecTag) *)

\* C7: the encoded size of a tag of any type is a multiple of 4 bytes
C7_TagSizeMultipleOf4 ==
  tag # NoTag =>
    /\ SizeOfTag(tag.type) % 4 = 0
    /\ Len(TagBytes(tag)) = SizeOfTag(tag.type)

C7_Witness ==
  /\ tag # NoTag
  /\ tag.type = "BoardMACAddressGet"
  /\ Len(TagBytes(tag)) = 20

\* C8: the tag_size field written by new() is a multiple of 4
C8_TagSizeFieldMultipleOf4 == tag # NoTag => tag.tagsize % 4 = 0

\* C9: new() sets tag_id to the identifier of the type, tag_size to the byte
\* size of the payload overlay, tag_state to 0, the request view to the
\* arguments and every padding byte to 0
C9_NewInitialisesTag ==
  tag # NoTag =>
    /\ tag.type = newIn.type
    /\ WordAt(TagBytes(tag), 0) = Catalog[newIn.type].id
    /\ WordAt(TagBytes(tag), 1) = Len(tag.tagdata)
    /\ Len(tag.tagdata) = SizeOfData(newIn.type)
    /\ WideAt(TagBytes(tag), 2) = <<0, 0>>
    /\ \A k \in 1..Len(newIn.args) : Request(tag, k) = newIn.args[k]
    /\ \A i \in 1..Len(tag.tagpadding) : tag.tagpadding[i] = 0

C9_Witness ==
  /\ tag # NoTag
  /\ tag.type = "ClockrateSet"
  /\ newIn.args = <<4, 16909060, 7>>
  /\ tag.tagsize = 12

\* C10: From<T> yields msg_size = 12 + size_of(T), msg_type = Request, the
\* tag unchanged and msg_end = 0
C10_FromWrapsTag ==
  kind = "message" =>
    /\ buf.msg_size = 12 + Len(TagBytes(tag))
    /\ buf.msg_type = StRequest
    /\ buf.msg_tag = tag
    /\ buf.msg_end = 0
    /\ WordAt(MessageBytes(buf), 0) = 12 + SizeOfTag(tag.type)
    /\ WideAt(MessageBytes(buf), 1) = <<0, 0>>
    /\ SubSeq(MessageBytes(buf), 9, 8 + Len(TagBytes(tag))) = TagBytes(tag)
    /\ WordAt(MessageBytes(buf), 2 + (SizeOfTag(tag.type) \div 4)) = 0

C10_Witness ==
  /\ kind = "message"
  /\ buf.msg_tag.type = "BoardMACAddressGet"
  /\ buf.msg_size = 32

-----------------------------------------------------------------------------
(* Properties of one exchange (Spec) *)

\* C11: the steps of an exchange happen in the order cache clean, write,
\* matching read, cache invalidate, read-back, classification: the steps
\* finished so far are always a prefix of that order, and an exchange that
\* has a result has gone through all of them
C11_StepsInOrder ==
  /\ Len(trace) <= Len(StepOrder)
  /\ trace = SubSeq(StepOrder, 1, Len(trace))
  /\ (pc = "done" \/ result # None) => trace = StepOrder
  /\ pc = "idle" => trace = <<>>
  /\ vcdone => Len(trace) >= 2

C11_Witness ==
  /\ pc = "done"
  /\ kind = "batch"
  /\ foreign >= 1
  /\ trace = StepOrder

\* C12: MAILBOX1_WRITE is stored to only when the status read last had FULL
\* clear, MAILBOX0_READ is loaded only when the status read last had EMPTY
\* clear, and as long as the flag is set the loop stays where it is and
\* leaves the data register alone
C12_HandshakeRespectsFlags ==
  [][ /\ Len(wlog') > Len(wlog) => ~HasFlag(seen, MAILBOX_FULL)
      /\ Len(fifo0') < Len(fifo0) => ~HasFlag(seen, MAILBOX_EMPTY)
      /\ (pc = "w_status" /\ HasFlag(Mailbox1Status, MAILBOX_FULL))
           => (pc' = "w_status" /\ wlog' = wlog)
      /\ (pc = "r_status" /\ HasFlag(Mailbox0Status, MAILBOX_EMPTY))
           => (pc' = "r_status" /\ Len(fifo0') >= Len(fifo0))
    ]_vars

C12_Witness ==
  /\ pc = "r_load"
  /\ ~HasFlag(seen, MAILBOX_EMPTY)
  /\ Len(wlog) = 1
  /\ foreign = 1
  /\ ~vcdone

\* C14: a value of another channel that is read is dropped and the loop goes
\* on; between the write and the matching read there is no other way out of
\* the read step, and every exchange beyond the read step has read a value
\* whose low 4 bits are its channel
C14_ReadIgnoresOtherChannels ==
  /\ [](pc \in {"invalidate", "readback", "done"}
          => (Low4(seen) = channel /\ rdata = ClearLow4(seen)))
  /\ [][ /\ (pc = "r_load" /\ Low4(Head(fifo0)) # channel)
              => (pc' \in {"r_load", "r_status"} /\ rdata' = <<>>)
         /\ pc \in {"r_status", "r_load"}
              => pc' \in {"r_status", "r_load", "invalidate"}
         /\ (pc = "r_load" /\ pc' = "invalidate")
              => (seen' = Head(fifo0) /\ Low4(Head(fifo0)) = channel)
       ]_vars

C14_Witness ==
  /\ pc = "done"
  /\ foreign = 2
  /\ fifo0 = <<>>
  /\ vcdone
  /\ Low4(seen) = PropertyTagsVc

\* C16: an exchange stores to MAILBOX1_WRITE exactly once: nothing before
\* the write step, one value from then on, whatever was read and whatever
\* the result is
C16_ExactlyOneWrite ==
  /\ Len(wlog) <= 1
  /\ pc \in {"idle", "clean", "w_status", "w_store"} => wlog = <<>>
  /\ pc \in {"r_status", "r_load", "invalidate", "readback", "done"}
       => wlog = <<SubmitValue(channel, uncached)>>

C16_Witness ==
  /\ pc = "done"
  /\ ~result.ok
  /\ result.state = StResponseError
  /\ foreign = 2
  /\ Len(wlog) = 1

\* C17: when the message_state read back is ResponseOk the result is Ok
\* whatever the tag_state of the tags is, and the value returned holds every
\* tag_state as the VideoCore left it
C17_TagStateNotAnError ==
  (pc = "done" /\ result.state = StResponseOk) =>
    /\ result.ok
    /\ result.value # None
    /\ \A i \in 1..Len(BufferTags(kind, mem)) :
         BufferTags(kind, result.value)[i].tagstate
           = BufferTags(kind, mem)[i].tagstate

C17_Witness ==
  /\ pc = "done"
  /\ kind = "batch"
  /\ vcdone
  /\ result.ok
  /\ \E i \in 1..Len(BufferTags(kind, result.value)) :
       BufferTags(kind, result.value)[i].tagstate = <<0, 0>>
  /\ \E i \in 1..Len(BufferTags(kind, result.value)) :
       /\ BufferTags(kind, result.value)[i].tagstate[1] = 32768
       /\ BufferTags(kind, result.value)[i].tagstate[2]
            > BufferTags(kind, result.value)[i].tagsize

\* some tags of the batch carry a response, others were left unprocessed
PartlyProcessed(tags) ==
  /\ \E i \in 1..Len(tags) : tags[i].tagstate[1] >= 32768
  /\ \E i \in 1..Len(tags) : tags[i].tagstate[1] < 32768

\* C19: after a batch was processed with only part of its tags successful
\* (message_state ResponseError) the caller of send_batch holds the processed
\* batch and can read the state of each tag
C19_PartialBatchInspectable ==
  ( /\ pc = "done"
    /\ kind = "batch"
    /\ vcdone
    /\ mem.msg_type = StResponseError
    /\ PartlyProcessed(BufferTags(kind, mem)) )
  => /\ result.value # None
     /\ BufferTags(kind, result.value) = BufferTags(kind, mem)

\* C13: the value stored to MAILBOX1_WRITE has the channel number in bits
\* 0..3, the address bits 4..29 of the (16 byte aligned) buffer in bits 4..29
\* and bits 30 and 31 set; the value mb_read returns is the value read with
\* bits 0..3 cleared
C13_SubmitValueKeepsAddress ==
  /\ \A i \in 1..Len(wlog) :
       /\ wlog[i][2] % 16 = channel
       /\ wlog[i][2] \div 16 = ptr[2] \div 16
       /\ wlog[i][1] % 16384 = ptr[1] % 16384
       /\ wlog[i][1] \div 16384 = 3
       /\ ptr[2] % 16 = 0
  /\ rdata # <<>> =>
       /\ rdata[2] % 16 = 0
       /\ rdata[2] \div 16 = seen[2] \div 16
       /\ rdata[1] = seen[1]

C13_Witness ==
  /\ pc = "done"
  /\ channel = PropertyTagsArm
  /\ ptr = <<4660, 43680>>
  /\ wlog = << <<53812, 43689>> >>
  /\ rdata = <<53812, 43680>>

\* the request and the response view of tag type T start with a field of the
\* same type
AliasLeadingField(T) ==
  /\ Catalog[T].req # <<>>
  /\ Catalog[T].rsp # <<>>
  /\ Catalog[T].req[1] = Catalog[T].rsp[1]

\* C20: a message built from new(args) and exchanged with a VideoCore that
\* only sets message_state = ResponseOk and the response bit of tag_state
\* comes back as Ok, and the leading response field, where it aliases the
\* leading request field, reads the value handed to new()
C20_RoundTrip ==
  (pc = "done" /\ AliasLeadingField(newIn.type)) =>
    /\ result.ok
    /\ result.value.msg_tag.tagstate = <<32768, 0>>
    /\ Response(result.value.msg_tag, 1) = newIn.args[1]

C20_Witness ==
  /\ pc = "done"
  /\ newIn = [type |-> "ClockrateGet", args |-> <<4>>]
  /\ result.ok
  /\ Response(result.value.msg_tag, 1) = 4

\* a value of the exchange's channel waits in the FIFO behind MAILBOX0_READ
ChannelValueWaiting ==
  \E i \in 1..Len(fifo0) : Low4(fifo0[i]) = channel

\* C15: the wait loops have no other exit than the flag: while MAILBOX1 is
\* full the write loop stays, while no value of the channel is there the read
\* loop stays, in both cases without a result; if MAILBOX1 is eventually not
\* full for good and the VideoCore eventually answers every request written,
\* every exchange that was started ends with one result, Ok or Err
C15_BusyWaitsUnbounded ==
  /\ [][ /\ (pc = "w_status" /\ st1full)
              => (pc' = "w_status" /\ result' = None)
         /\ (pc \in {"r_status", "r_load"} /\ ~ChannelValueWaiting)
              => (pc' \in {"r_status", "r_load"} /\ result' = None)
         /\ result # None => (result' = result \/ pc' = "idle")
       ]_vars
  /\ [](pc = "done" <=> result # None)
  /\ [](result # None => result.ok \in BOOLEAN)
  /\ ( (<>[](~st1full) /\ [](pc = "r_status" => <>vcdone))
         => ((pc = "clean") ~> (pc = "done")) )

C15_Witness ==
  /\ pc = "w_status"
  /\ st1full
  /\ HasFlag(seen, MAILBOX_FULL)
  /\ kind = "batch"

\* the contexts whose exchange is between its write and the end of its read
InFlight == {c \in Contexts : call[c].at = "written"}

\* C18: at most one exchange is in flight: a context runs an exchange method
\* only while it holds the exclusive reference to the Mailbox, so no two
\* contexts are between write and read together
C18_OneExchangeInFlight == Cardinality(InFlight) <= 1

\* C21: every value a Mailbox method stores to MAILBOX1_WRITE has channel
\* number 8 (PropertyTagsVc) in its low 4 bits, and the read loop of every
\* exchange waits for that channel
C21_OnlyPropertyTagsVc ==
  /\ \A i \in 1..Len(wlog) : wlog[i][2] % 16 = 8
  /\ pc # "idle" => channel = 8

C21_Witness ==
  /\ kind = "batch"
  /\ Len(wlog) = 1
  /\ wlog[1][2] % 16 = 8
  /\ pc = "done"

\* C22: the address the result is read back from, uncached ^ 0xC000_0000,
\* is the address of the buffer that was handed in, for every 32 bit address
C22_ReadBackAddress ==
  pc = "done" => XorAlias(uncached) = ptr

-----------------------------------------------------------------------------
(* Further properties of the tag codec (SpecTag) *)

\* C23: 12 + tag_size is the encoded size of the tag, so that a reader that
\* takes the record at byte offset 8 of a message to be 12 + tag_size bytes
\* long finds the terminator word right behind it
C23_TagSizeDelimitsTag ==
  /\ tag # NoTag => 12 + tag.tagsize = Len(TagBytes(tag))
  /\ kind = "message" => 8 + 12 + buf.msg_tag.tagsize = buf.msg_size - 4

\* C25: the payload of a tag is as large as the larger of its request and
\* its response struct, and both views start at its first byte, byte 12 of
\* the tag
C25_OverlayOfRequestAndResponse ==
  tag # NoTag =>
    LET req == Catalog[tag.type].req
        rsp == Catalog[tag.type].rsp
    IN /\ Len(tag.tagdata) = Max(StructSize(req), StructSize(rsp))
       /\ tag.tagsize = Max(StructSize(req), StructSize(rsp))
       /\ SubSeq(TagBytes(tag), 13, 12 + Len(tag.tagdata)) = tag.tagdata
       /\ req # <<>> => FieldOffset(req, 1) = 0
       /\ rsp # <<>> => FieldOffset(rsp, 1) = 0
       /\ (req # <<>> /\ rsp # <<>> /\ req[1] = rsp[1])
            => Response(tag, 1) = Request(tag, 1)

C25_Witness ==
  /\ tag # NoTag
  /\ tag.type = "ClockrateSet"
  /\ StructSize(Catalog[tag.type].req) = 12
  /\ StructSize(Catalog[tag.type].rsp) = 8
  /\ Len(tag.tagdata) = 12

-----------------------------------------------------------------------------
(* Exchanges with answers to other buffers in the incoming FIFO (SpecStale) *)

\* the answers of the VideoCore to buffers other than the one of the running
\* exchange, on the channel every caller uses (the buffer of an exchange
\* that another Mailbox handle runs)
StaleValues ==
  { SubmitValue(PropertyTagsVc, OrAlias(a)) : a \in StackAddrs \ {ptr} }

\* the VideoCore puts the answer to another buffer into mailbox 0
VcStale ==
  /\ pc \notin {"idle", "done"}
  /\ foreign < MaxForeign
  /\ Len(fifo0) < MaxForeign
  /\ \E v \in StaleValues : fifo0' = Append(fifo0, v)
  /\ foreign' = foreign + 1
  /\ UNCHANGED <<pc, trace, rdata, channel, ptr, uncached, released, st1full,
                 seen, wlog, mem, vcdone, result, callerVars, codecVars,
                 handleVars>>

NextStale ==
  \/ MakeMessage
  \/ EmptyBatch
  \/ AppendTag(MaxFairTags, SendTags)
  \/ SendMessage
  \/ SendBatch
  \/ CleanCache
  \/ MbWriteStatus
  \/ MbWriteStore
  \/ MbReadStatus
  \/ MbReadLoad
  \/ InvalidateCache
  \/ ReadBack
  \/ Return
  \/ VcAnswer
  \/ VcStale

SpecStale == Init /\ [][NextStale]_vars

-----------------------------------------------------------------------------
(* One tag sent as a message and as a batch of one tag (SpecWire) *)

NextWire ==
  \/ NewTag
  \/ IntoMessage
  \/ IntoBatch
  \/ SendMessage
  \/ SendBatch
  \/ CleanCache
  \/ MbWriteStatus
  \/ MbWriteStore
  \/ MbReadStatus
  \/ MbReadLoad
  \/ InvalidateCache
  \/ ReadBack
  \/ Return
  \/ VcAnswer

SpecWire == Init /\ [][NextWire]_vars

-----------------------------------------------------------------------------
(* Properties of the envelopes (SpecEnvelope) *)

\* the envelope the caller holds as it lies in memory, and its tags alone
BufBytes == IF kind = "message" THEN MessageBytes(buf) ELSE BatchBytes(buf)

BufTagBytes ==
  IF kind = "message" THEN TagBytes(buf.msg_tag) ELSE TagsBytes(buf.msg_tags)

\* C24: msg_size of every message and batch is a multiple of 4, and the
\* terminator word 0 is the u32 at byte offset msg_size - 4, which is where
\* the last tag ends (offset 8 for the empty batch)
C24_TerminatorFollowsTags ==
  kind \in {"message", "batch"} =>
    /\ buf.msg_size % 4 = 0
    /\ buf.msg_size - 4 = 8 + Len(BufTagBytes)
    /\ Len(BufBytes) = buf.msg_size
    /\ SubSeq(BufBytes, 9, 8 + Len(BufTagBytes)) = BufTagBytes
    /\ SubSeq(BufBytes, buf.msg_size - 3, buf.msg_size) = <<0, 0, 0, 0>>

C24_Witness ==
  /\ kind = "batch"
  /\ Len(hist) = 2
  /\ hist[1].type = "BoardMACAddressGet"
  /\ hist[2].type = "ClockrateGet"
  /\ buf.msg_size = 52
  /\ SubSeq(BufBytes, 49, 52) = <<0, 0, 0, 0>>

-----------------------------------------------------------------------------
(* Properties of the read-back (Spec) *)

\* C26: over one exchange the buffer is released at most once, and never by
\* the value the caller passed in: on the Err path the reconstructed value is
\* released inside the function, on the Ok path it is handed to the caller
\* unreleased and released by the caller only
C26_ReleasedAtMostOnce ==
  /\ Len(released) <= 1
  /\ \A i \in 1..Len(released) : released[i] = "reconstructed"
  /\ pc \notin {"idle", "done"} => released = <<>>
  /\ (pc = "done" /\ result.ok) => released = <<>>
  /\ (pc = "done" /\ ~result.ok) => released = <<"reconstructed">>

C26_Witness ==
  /\ pc = "done"
  /\ ~result.ok
  /\ result.state = StResponseError
  /\ released = <<"reconstructed">>

\* C27: the write step and the read step yield no result of their own; an
\* error is the classification error only, returned after the one write to
\* the submit register and the read of a value of the exchange's channel
C27_ErrorOnlyFromClassification ==
  /\ pc \in {"clean", "w_status", "w_store", "r_status", "r_load",
             "invalidate", "readback"} => result = None
  /\ (result # None /\ ~result.ok) =>
       /\ Len(wlog) = 1
       /\ wlog[1] = SubmitValue(channel, uncached)
       /\ rdata # <<>>
       /\ Low4(seen) = channel
       /\ trace = StepOrder
       /\ result.state # StResponseOk

C27_Witness ==
  /\ pc = "done"
  /\ ~result.ok
  /\ result.state = StRequest
  /\ foreign > 0
  /\ Len(wlog) = 1
  /\ rdata # <<>>

-----------------------------------------------------------------------------
(* Properties of the receive FIFO (Spec) *)

\* the number of values in the FIFO f that are tagged for a channel other
\* than ch
OtherChannelValues(f, ch) ==
  Cardinality({i \in 1..Len(f) : Low4(f[i]) # ch})

\* C28: the read step leaves every value tagged for another channel in the
\* incoming FIFO: no step taken while the exchange loads from the receive
\* register lowers the number of other channels' values waiting there
C28_OtherChannelValueStaysAvailable ==
  [][pc = "r_load" =>
       OtherChannelValues(fifo0', channel) >= OtherChannelValues(fifo0, channel)
    ]_vars

\* C29: when the exchange has left the read step, the address bits of the
\* value it read from the receive register are those of the value it wrote
\* to the submit register, whatever answers to other buffers are in the FIFO
C29_ReadValueBelongsToOwnBuffer ==
  pc \in {"invalidate", "readback", "done"} => rdata = ClearLow4(wlog[1])

-----------------------------------------------------------------------------
(* Properties of a batch of one tag (SpecWire) *)

\* C30: a batch of exactly one tag t and the message of t have the same
\* wire image (equal msg_size, msg_type Request, the bytes of t at offset 8,
\* the zero terminator at the same offset), and send_batch and send_message
\* make the same register accesses in the same order and classify the state
\* word read back the same way
C30_BatchOfOneIsMessage ==
  /\ tag # NoTag =>
       LET m == From(tag)
           b == WithTag(Empty, tag)
       IN /\ m.msg_size = b.msg_size
          /\ m.msg_type = StRequest /\ b.msg_type = StRequest
          /\ SubSeq(MessageBytes(m), 9, 8 + Len(TagBytes(tag))) = TagBytes(tag)
          /\ SubSeq(BatchBytes(b), 9, 8 + Len(TagBytes(tag))) = TagBytes(tag)
          /\ m.msg_end = 0 /\ b.msg_end = 0
          /\ MessageBytes(m) = BatchBytes(b)
          /\ kind = "message" => buf = m
          /\ kind = "batch" => buf = b
  /\ pc = "done" =>
       /\ trace = StepOrder
       /\ wlog = <<SubmitValue(PropertyTagsVc, OrAlias(ptr))>>
       /\ result.ok => "Ok" \in Classify(result.state)
       /\ ~result.ok => "Err" \in Classify(result.state)

C30_Witness ==
  /\ pc = "done"
  /\ kind = "batch"
  /\ tag.type = "BoardMACAddressGet"
  /\ MessageBytes(From(tag)) = BatchBytes(buf)
  /\ result.state = StResponseError
  /\ ~result.ok

====
